---------------------------- MODULE Spec2Model ----------------------------
(***************************************************************************)
(* Fuzzy Logic Cooling Control System (index.py).                          *)
(*                                                                         *)
(* One run of the script reads three sliders, builds the fuzzy control     *)
(* system, sets the three inputs, calls compute() and displays the crisp   *)
(* cooling level.  Every slider change reruns the script from the top.     *)
(*                                                                         *)
(* Numbers.  Membership degrees are rationals in [0,1]; they are kept as   *)
(* integers over the common denominator DEG.  Points of the cooling axis   *)
(* are kept as integers over the denominator XS.  With these two           *)
(* denominators every degree and every interpolated point the program      *)
(* computes for integer slider values is an integer, so the arithmetic     *)
(* below is exact (floating-point rounding is not modelled).  Sums that    *)
(* exceed 32 bits are kept as pairs <<hi, lo>> in base BASE.               *)
(***************************************************************************)
EXTENDS Integers, Sequences, FiniteSets, Bags, TLC

\* DEG is a common multiple of the widths 3, 4, 5, 7, 10, 20, 30 and 50 of the
\* slopes of the twelve sets; XS makes the points where a cooling set meets a
\* cut of k/DEG integers.
DEG == 3 * 4 * 7 * 25
XS == 2 * 3 * 7
BASE == 100 * 100

Max(a, b) == IF a >= b THEN a ELSE b
Min(a, b) == IF a <= b THEN a ELSE b

(***************************************************************************)
(* np.arange(start, stop, 1): the array start, start+1, ..., stop-1.       *)
(***************************************************************************)
Arange(start, stop) == [k \in 1..(stop - start) |-> start + k - 1]

TemperatureUniverse == Arange(15, 35)
HumidityUniverse == Arange(30, 80)
OccupancyUniverse == Arange(0, 21)
CoolingUniverse == Arange(0, 100)

(***************************************************************************)
(* The [a, b, c] parameters of the twelve triangular sets.                 *)
(***************************************************************************)
TemperatureSets ==
    [cold |-> <<15, 15, 20>>, moderate |-> <<18, 25, 28>>, hot |-> <<25, 35, 35>>]
HumiditySets ==
    [low |-> <<30, 30, 50>>, medium |-> <<40, 60, 60>>, high |-> <<60, 80, 80>>]
OccupancySets ==
    [low |-> <<0, 0, 5>>, medium |-> <<3, 8, 12>>, high |-> <<10, 20, 20>>]
CoolingSets ==
    [low |-> <<0, 0, 30>>, medium |-> <<20, 50, 60>>, high |-> <<50, 100, 100>>]

(***************************************************************************)
(* fuzz.trimf at one point x, for abc = [a, b, c]: zero, overwritten by    *)
(* the left slope on a < x < b, by the right slope on b < x < c and by 1   *)
(* at x = b.                                                               *)
(***************************************************************************)
trimf(x, abc) ==
    LET a == abc[1]
        b == abc[2]
        c == abc[3]
    IN  IF x = b THEN DEG
        ELSE IF a # b /\ a < x /\ x < b THEN ((x - a) * DEG) \div (b - a)
        ELSE IF b # c /\ b < x /\ x < c THEN ((c - x) * DEG) \div (c - b)
        ELSE 0

(***************************************************************************)
(* A variable with its sets: the universe and, per set name, the           *)
(* membership array sampled on the universe (terms[n][k] is the degree of  *)
(* universe[k]).                                                           *)
(***************************************************************************)
Variable(universe, sets) ==
    [universe |-> universe,
     terms |-> [n \in DOMAIN sets |->
                  [k \in 1..Len(universe) |-> trimf(universe[k], sets[n])]]]

FuzzySystem ==
    [temperature |-> Variable(TemperatureUniverse, TemperatureSets),
     humidity |-> Variable(HumidityUniverse, HumiditySets),
     occupancy |-> Variable(OccupancyUniverse, OccupancySets),
     cooling |-> Variable(CoolingUniverse, CoolingSets)]

(***************************************************************************)
(* universe.min() and universe.max() of an increasing array, and the set   *)
(* of its points.                                                          *)
(***************************************************************************)
ArrayMin(universe) == universe[1]
ArrayMax(universe) == universe[Len(universe)]
Points(universe) == {universe[k] : k \in 1..Len(universe)}

(***************************************************************************)
(* cooling_sim.input[...] = value: the simulation is built with            *)
(* clip_to_bounds, so the value is clipped to the variable's universe.     *)
(***************************************************************************)
ClipToBounds(value, universe) ==
    Max(Min(value, ArrayMax(universe)), ArrayMin(universe))

(***************************************************************************)
(* interp_membership for a crisp input that is a point of the universe     *)
(* (every clipped integer slider value is one): the sampled degree.        *)
(***************************************************************************)
InputMembership(var, value) ==
    [n \in DOMAIN var.terms |-> var.terms[n][value - ArrayMin(var.universe) + 1]]

(***************************************************************************)
(* Term | Term is np.fmax, Term & Term is np.fmin.                         *)
(***************************************************************************)
FuzzyOr_min(a, b) == Min(a, b)
FuzzyOr(a, b) == Max(a, b)
FuzzyAnd(a, b) == Min(a, b)

rule1(mv) == FuzzyOr(mv.temperature.cold, mv.humidity.low)
rule2_gap(mv) ==
    FuzzyAnd(FuzzyAnd(mv.temperature.moderate, mv.humidity.medium), mv.occupancy.high)
rule2(mv) ==
    FuzzyAnd(FuzzyAnd(mv.temperature.moderate, mv.humidity.medium), mv.occupancy.low)
rule3_gap(mv) ==
    FuzzyAnd(FuzzyAnd(mv.temperature.moderate, mv.humidity.medium), mv.occupancy.high)
rule3(mv) ==
    FuzzyAnd(FuzzyAnd(mv.temperature.moderate, mv.humidity.medium), mv.occupancy.medium)
rule4(mv) == FuzzyOr(mv.temperature.hot, mv.humidity.high)
rule5(mv) == mv.occupancy.high

Firing(mv) == <<rule1(mv), rule2(mv), rule3(mv), rule4(mv), rule5(mv)>>

(***************************************************************************)
(* The consequent set of each rule, in rule order.                         *)
(***************************************************************************)
Consequent_swapped == <<"low", "low", "medium", "high", "medium">>
Consequent == <<"low", "low", "medium", "high", "high">>

(***************************************************************************)
(* Accumulation: the rules are taken in order; a rule's firing strength    *)
(* becomes the cut of its cooling set when the set has none yet, and       *)
(* otherwise the maximum of the two.  AccumulateTo is the cut of set n     *)
(* after the first i rules (<<>> for none).                                *)
(***************************************************************************)
RECURSIVE AccumulateTo(_, _, _)
AccumulateTo(f, n, i) ==
    IF i = 0 THEN <<>>
    ELSE LET prev == AccumulateTo(f, n, i - 1)
         IN  IF Consequent[i] # n THEN prev
             ELSE IF prev = <<>> THEN <<f[i]>>
             ELSE <<Max(f[i], prev[1])>>

Accumulate(f) ==
    [n \in {"low", "medium", "high"} |-> AccumulateTo(f, n, Len(f))[1]]

(***************************************************************************)
(* Defuzzification of the cooling variable.                                *)
(*                                                                         *)
(* interp_universe(x, xmf, y): the points where the sampled membership     *)
(* xmf crosses the level y between two neighbouring grid points, found by  *)
(* linear interpolation, followed by the grid points where xmf = y.        *)
(* Points are returned on the XS scale.                                    *)
(***************************************************************************)
Crosses(xmf, y, i) ==
    IF y = 0 THEN (xmf[i] > y) # (xmf[i + 1] > y)
             ELSE (xmf[i] >= y) # (xmf[i + 1] >= y)

CrossPoint(x, xmf, y, i) ==
    XS * x[i] + ((y - xmf[i]) * XS * (x[i + 1] - x[i])) \div (xmf[i + 1] - xmf[i])

interp_universe(x, xmf, y) ==
    LET cells == SelectSeq([k \in 1..(Len(x) - 1) |-> k],
                           LAMBDA i : Crosses(xmf, y, i))
        level == SelectSeq([k \in 1..Len(x) |-> k], LAMBDA i : xmf[i] = y)
    IN  [k \in 1..Len(cells) |-> CrossPoint(x, xmf, y, cells[k])]
            \o [k \in 1..Len(level) |-> XS * x[level[k]]]

(***************************************************************************)
(* interp_membership(x, xmf, p) for a point p of the upsampled universe    *)
(* (XS scale): linear interpolation between the two neighbouring samples   *)
(* x[i] <= p <= x[i+1] of the unit-step universe x.                        *)
(***************************************************************************)
interp_membership(x, xmf, p) ==
    LET i == (p \div XS) - x[1] + 1
    IN  IF p = XS * x[i] THEN xmf[i]
        ELSE xmf[i] + ((xmf[i + 1] - xmf[i]) * (p - XS * x[i])) \div (XS * (x[i + 1] - x[i]))

(***************************************************************************)
(* np.union1d(s, t), the sorted array of the distinct values of s and t,   *)
(* for an array s that is sorted and without duplicates already: the       *)
(* values of t that s lacks are sorted, freed of duplicates and inserted   *)
(* into s at their places.                                                 *)
(***************************************************************************)
Unique(s) ==
    LET keep == SelectSeq([k \in 1..Len(s) |-> k],
                          LAMBDA k : k = 1 \/ s[k] # s[k - 1])
    IN  [k \in 1..Len(keep) |-> s[keep[k]]]

RECURSIVE Insert(_, _, _)
Insert(s, e, n) ==
    IF n = 0 THEN s
    ELSE LET below == Cardinality({k \in 1..Len(s) : s[k] < e[n]})
         IN  Insert(SubSeq(s, 1, below), e, n - 1)
                 \o <<e[n]>> \o SubSeq(s, below + 1, Len(s))

union1d(s, t) ==
    LET have == {s[k] : k \in 1..Len(s)}
        new == Unique(SortSeq(SelectSeq(t, LAMBDA v : v \notin have),
                              LAMBDA a, b : a < b))
    IN  Insert(s, new, Len(new))

(***************************************************************************)
(* find_memberships: the cooling universe upsampled with the points where  *)
(* each set meets its cut, and on it the aggregate membership, the         *)
(* pointwise maximum over the sets of min(cut, membership).  The result    *)
(* is the sequence of pairs <<point, degree>>.                             *)
(***************************************************************************)
find_memberships(var, cut) ==
    LET universe == var.universe
        grid == [k \in 1..Len(universe) |-> XS * universe[k]]
        new_values ==
            interp_universe(universe, var.terms.low, cut.low)
                \o interp_universe(universe, var.terms.medium, cut.medium)
                \o interp_universe(universe, var.terms.high, cut.high)
        new_universe == union1d(grid, new_values)
        term_mf(n, p) == Min(cut[n], interp_membership(universe, var.terms[n], p))
        output_mf(p) == Max(Max(Max(0, term_mf("low", p)), term_mf("medium", p)),
                            term_mf("high", p))
    IN  [k \in 1..Len(new_universe) |->
            <<new_universe[k], output_mf(new_universe[k])>>]

(***************************************************************************)
(* Numbers beyond 32 bits, as <<hi, lo>> with value hi * BASE + lo and     *)
(* 0 <= lo < BASE.                                                         *)
(***************************************************************************)
Norm(hi, lo) == <<hi + (lo \div BASE), lo % BASE>>
BigMul(a, k) == Norm((a \div BASE) * k, (a % BASE) * k)
BigAdd(p, q) == Norm(p[1] + q[1], p[2] + q[2])
BigLess(p, q) == p[1] < q[1] \/ (p[1] = q[1] /\ p[2] < q[2])

(***************************************************************************)
(* centroid(x, mfx): sum of moment * area over sum of area, the aggregate  *)
(* being linear between neighbouring points.  A segment of zero width or   *)
(* zero height is skipped.  For a segment from (x1, y1) to (x2, y2) the    *)
(* code's four cases (rectangle, two triangles, trapezoid) are all         *)
(*    area          = (x2 - x1) * (y1 + y2) / 2                            *)
(*    moment * area = (x2 - x1) * (3 * x1 * (y1 + y2)                      *)
(*                                  + (x2 - x1) * (y1 + 2 * y2)) / 6       *)
(* SegArea is twice the area and SegMoment six times moment * area, on     *)
(* the XS and DEG scales.  The result is the pair of the two sums; the     *)
(* centroid is m / (3 * XS * a).  Sum(f) is the sum of the values of a     *)
(* function f of non-negative numbers (the size of the bag that holds i    *)
(* f[i] times).                                                            *)
(***************************************************************************)
Skipped(s, i) ==
    (s[i][2] = 0 /\ s[i + 1][2] = 0) \/ s[i][1] = s[i + 1][1]

SegArea(s, i) ==
    (s[i + 1][1] - s[i][1]) * (s[i][2] + s[i + 1][2])

SegMoment(s, i) ==
    LET x1 == s[i][1]
        dx == s[i + 1][1] - x1
        y1 == s[i][2]
        y2 == s[i + 1][2]
    IN  BigMul(3 * x1 * (y1 + y2) + dx * (y1 + 2 * y2), dx)

Sum(f) == BagCardinality([i \in {j \in DOMAIN f : f[j] > 0} |-> f[i]])

centroid_sum(s) ==
    [m |-> BigMul(Sum([i \in 1..Len(s) |-> s[i][1] * s[i][2]]), 3),
     a |-> Sum([i \in 1..Len(s) |-> s[i][2]])]

centroid(s) ==
    LET segs == {i \in 1..(Len(s) - 1) : ~Skipped(s, i)}
        moment == [i \in segs |-> SegMoment(s, i)]
    IN  [m |-> Norm(Sum([i \in segs |-> moment[i][1]]),
                    Sum([i \in segs |-> moment[i][2]])),
         a |-> Sum([i \in segs |-> SegArea(s, i)])]

(***************************************************************************)
(* defuzz: the total of the aggregate degrees is zero -> the assertion     *)
(* fails and compute() raises ValueError ("Crisp output cannot be          *)
(* calculated ...").                                                       *)
(***************************************************************************)
ZeroTruthDegree(s) == \A i \in 1..Len(s) : s[i][2] = 0

(***************************************************************************)
(* Comparisons of a crisp value v = [m, a] with an integer c, and          *)
(* int(v).                                                                 *)
(***************************************************************************)
LessThan(v, c) == BigLess(v.m, BigMul(v.a, 3 * XS * c))
GreaterThan(v, c) == BigLess(BigMul(v.a, 3 * XS * c), v.m)
EqualTo(v, c) == v.m = BigMul(v.a, 3 * XS * c)

IntPart(v) ==
    LET tens == CHOOSE t \in 0..9 : ~LessThan(v, 10 * t) /\ LessThan(v, 10 * t + 10)
    IN  CHOOSE n \in (10 * tens)..(10 * tens + 9) : ~LessThan(v, n) /\ LessThan(v, n + 1)

(***************************************************************************)
(* The state of one run of the script.  An empty sequence stands for a     *)
(* value that does not exist yet; a value v that exists is held as <<v>>.  *)
(***************************************************************************)
VARIABLES
    temp_value,         \* the temperature slider
    humidity_value,     \* the humidity slider
    occupancy_value,    \* the occupancy slider
    system,             \* the variables and sets built by create_fuzzy_system
    input,              \* cooling_sim.input
    membership_value,   \* degree of every antecedent set for the inputs
    firing,             \* firing strength of rule1 .. rule5
    cut,                \* accumulated cut of every cooling set
    aggregate,          \* aggregate cooling membership over the upsampled universe
    cooling_level,      \* cooling_sim.output['cooling']
    shown,              \* what the output column displays
    pc                  \* position of the run

vars == <<temp_value, humidity_value, occupancy_value, system, input,
          membership_value, firing, cut, aggregate, cooling_level, shown, pc>>

(***************************************************************************)
(* The ranges and the default values of the three sliders.                 *)
(***************************************************************************)
TempSlider == 15..35
HumiditySlider == 30..80
OccupancySlider == 0..20
TempDefault == 28
HumidityDefault == 65
OccupancyDefault == 5

(***************************************************************************)
(* A run starts with nothing but the slider values.                        *)
(***************************************************************************)
Fresh ==
    /\ system = <<>>
    /\ input = <<>>
    /\ membership_value = <<>>
    /\ firing = <<>>
    /\ cut = <<>>
    /\ aggregate = <<>>
    /\ cooling_level = <<>>
    /\ shown = <<>>
    /\ pc = "start"

Init ==
    /\ temp_value = TempDefault
    /\ humidity_value = HumidityDefault
    /\ occupancy_value = OccupancyDefault
    /\ Fresh

(***************************************************************************)
(* cooling_sim, ... = create_fuzzy_system()                                *)
(***************************************************************************)
CreateFuzzySystem ==
    /\ pc = "start"
    /\ system' = <<FuzzySystem>>
    /\ pc' = "created"
    /\ UNCHANGED <<temp_value, humidity_value, occupancy_value, input,
                   membership_value, firing, cut, aggregate, cooling_level, shown>>

(***************************************************************************)
(* cooling_sim.input['temperature'] = temp_value, and likewise humidity    *)
(* and occupancy.                                                          *)
(***************************************************************************)
SetInputs_missing ==
    /\ pc = "created"
    /\ input' = <<[temperature |->
                      ClipToBounds(temp_value, system[1].temperature.universe),
                   humidity |->
                      ClipToBounds(humidity_value, system[1].humidity.universe)]>>
    /\ pc' = "ready"
    /\ UNCHANGED <<temp_value, humidity_value, occupancy_value, system,
                   membership_value, firing, cut, aggregate, cooling_level, shown>>

SetInputs ==
    /\ pc = "created"
    /\ input' = <<[temperature |->
                      ClipToBounds(temp_value, system[1].temperature.universe),
                   humidity |->
                      ClipToBounds(humidity_value, system[1].humidity.universe),
                   occupancy |->
                      ClipToBounds(occupancy_value, system[1].occupancy.universe)]>>
    /\ pc' = "ready"
    /\ UNCHANGED <<temp_value, humidity_value, occupancy_value, system,
                   membership_value, firing, cut, aggregate, cooling_level, shown>>

(***************************************************************************)
(* cooling_sim.compute(), first stage: every antecedent's input is         *)
(* fuzzified into the degrees of its sets.                                 *)
(***************************************************************************)
CanFuzzify ==
    /\ pc = "ready"
    /\ input # <<>>

Fuzzify ==
    /\ CanFuzzify
    /\ membership_value' =
          <<[temperature |-> InputMembership(system[1].temperature, input[1].temperature),
             humidity |-> InputMembership(system[1].humidity, input[1].humidity),
             occupancy |-> InputMembership(system[1].occupancy, input[1].occupancy)]>>
    /\ pc' = "fuzzified"
    /\ UNCHANGED <<temp_value, humidity_value, occupancy_value, system, input,
                   firing, cut, aggregate, cooling_level, shown>>

(***************************************************************************)
(* compute(), second stage: the five rules are computed in order, each     *)
(* firing strength being accumulated into the cut of its cooling set.      *)
(***************************************************************************)
RuleEvaluation ==
    /\ pc = "fuzzified"
    /\ firing' = Firing(membership_value[1])
    /\ cut' = <<Accumulate(firing')>>
    /\ pc' = "evaluated"
    /\ UNCHANGED <<temp_value, humidity_value, occupancy_value, system, input,
                   membership_value, aggregate, cooling_level, shown>>

(***************************************************************************)
(* compute(), third stage: the aggregate membership of the cooling         *)
(* variable.                                                               *)
(***************************************************************************)
Aggregation ==
    /\ pc = "evaluated"
    /\ aggregate' = find_memberships(system[1].cooling, cut[1])
    /\ pc' = "aggregated"
    /\ UNCHANGED <<temp_value, humidity_value, occupancy_value, system, input,
                   membership_value, firing, cut, cooling_level, shown>>

(***************************************************************************)
(* compute(), last stage: the centroid of the aggregate becomes the crisp  *)
(* output; an aggregate that is zero everywhere makes compute() raise,     *)
(* which ends the run (nothing in the script catches it).                  *)
(***************************************************************************)
Defuzzify_default ==
    /\ pc = "aggregated"
    /\ cooling_level' = IF ZeroTruthDegree(aggregate)
                        THEN <<[m |-> <<0, 0>>, a |-> 1]>>
                        ELSE <<centroid(aggregate)>>
    /\ pc' = "defuzzified"
    /\ UNCHANGED <<temp_value, humidity_value, occupancy_value, system, input,
                   membership_value, firing, cut, aggregate, shown>>

Defuzzify ==
    /\ pc = "aggregated"
    /\ IF ZeroTruthDegree(aggregate)
       THEN /\ pc' = "failed"
            /\ UNCHANGED cooling_level
       ELSE /\ cooling_level' = <<centroid(aggregate)>>
            /\ pc' = "defuzzified"
    /\ UNCHANGED <<temp_value, humidity_value, occupancy_value, system, input,
                   membership_value, firing, cut, aggregate, shown>>

(***************************************************************************)
(* The output column: the cooling level is read, the progress bar gets     *)
(* int(cooling_level) and one of the three recommendations is written.     *)
(***************************************************************************)
Recommendation(v) ==
    IF LessThan(v, 30) THEN "Low"
    ELSE IF LessThan(v, 60) THEN "Medium"
    ELSE "High"

Display ==
    /\ pc = "defuzzified"
    /\ shown' = <<[level |-> cooling_level[1],
                   progress |-> IntPart(cooling_level[1]),
                   recommendation |-> Recommendation(cooling_level[1])]>>
    /\ pc' = "displayed"
    /\ UNCHANGED <<temp_value, humidity_value, occupancy_value, system, input,
                   membership_value, firing, cut, aggregate, cooling_level>>

(***************************************************************************)
(* The user moves one slider to another value of its range: the script is  *)
(* run again from the top, with new objects.                               *)
(***************************************************************************)
Rerun_cached ==
    /\ shown' = <<>>
    /\ pc' = "defuzzified"
    /\ UNCHANGED <<system, input, membership_value, firing, cut, aggregate,
                   cooling_level>>

Rerun ==
    /\ system' = <<>>
    /\ input' = <<>>
    /\ membership_value' = <<>>
    /\ firing' = <<>>
    /\ cut' = <<>>
    /\ aggregate' = <<>>
    /\ cooling_level' = <<>>
    /\ shown' = <<>>
    /\ pc' = "start"

MoveTemperature ==
    /\ pc \in {"displayed", "failed"}
    /\ \E v \in TempSlider \ {temp_value} : temp_value' = v
    /\ UNCHANGED <<humidity_value, occupancy_value>>
    /\ Rerun

MoveHumidity ==
    /\ pc \in {"displayed", "failed"}
    /\ \E v \in HumiditySlider \ {humidity_value} : humidity_value' = v
    /\ UNCHANGED <<temp_value, occupancy_value>>
    /\ Rerun

MoveOccupancy ==
    /\ pc \in {"displayed", "failed"}
    /\ \E v \in OccupancySlider \ {occupancy_value} : occupancy_value' = v
    /\ UNCHANGED <<temp_value, humidity_value>>
    /\ Rerun

Run ==
    \/ CreateFuzzySystem
    \/ SetInputs
    \/ Fuzzify
    \/ RuleEvaluation
    \/ Aggregation
    \/ Defuzzify
    \/ Display

Next ==
    \/ Run
    \/ MoveTemperature
    \/ MoveHumidity
    \/ MoveOccupancy

Spec == Init /\ [][Next]_vars

(***************************************************************************)
(* The inference from the degrees on, as a function of the degrees alone:  *)
(* the degree of every antecedent set is drawn from Levels, whatever the   *)
(* sliders say.  This includes degrees for which no rule fires, which no   *)
(* slider position produces (C1_Coverage).                                 *)
(***************************************************************************)
Levels == {0, DEG}

DegreeInit ==
    /\ temp_value = TempDefault
    /\ humidity_value = HumidityDefault
    /\ occupancy_value = OccupancyDefault
    /\ system = <<FuzzySystem>>
    /\ input = <<[temperature |-> TempDefault,
                  humidity |-> HumidityDefault,
                  occupancy |-> OccupancyDefault]>>
    /\ \E t \in [DOMAIN TemperatureSets -> Levels],
          h \in [DOMAIN HumiditySets -> Levels],
          o \in [DOMAIN OccupancySets -> Levels] :
            membership_value = <<[temperature |-> t, humidity |-> h, occupancy |-> o]>>
    /\ firing = <<>>
    /\ cut = <<>>
    /\ aggregate = <<>>
    /\ cooling_level = <<>>
    /\ shown = <<>>
    /\ pc = "fuzzified"

DegreeNext ==
    \/ RuleEvaluation
    \/ Aggregation
    \/ Defuzzify
    \/ Display

DegreeSpec == DegreeInit /\ [][DegreeNext]_vars

(***************************************************************************)
(*                              Properties                                 *)
(***************************************************************************)
Sliders == <<temp_value, humidity_value, occupancy_value>>

Computed == pc \in {"defuzzified", "displayed"}

\* C1: for every tuple the sliders can supply, at least one of the five
\* rules has a firing strength greater than 0.
C1_Coverage ==
    firing # <<>> => \E i \in 1..5 : firing[i] > 0

\* Rule 3 is the only rule that fires.
C1_Witness ==
    /\ pc = "evaluated"
    /\ firing[3] > 0
    /\ \A i \in {1, 2, 4, 5} : firing[i] = 0

LowAlone ==
    [k \in 1..Len(CoolingUniverse) |->
        <<XS * CoolingUniverse[k], trimf(CoolingUniverse[k], CoolingSets.low)>>]

C3_LowestInputs ==
    (Sliders = <<15, 30, 0>> /\ Computed)
        => /\ firing = <<DEG, 0, 0, 0, 0>>
           /\ aggregate = LowAlone
           /\ EqualTo(cooling_level[1], 10)

C3_Witness ==
    Sliders = <<15, 30, 0>> /\ pc = "displayed"

\* C4: for the default sliders (28, 65, 5), rule 4 fires with the maximum of
\* hot(28) = 3/10 and high(65) = 1/4, no other rule fires, the crisp output is
\* greater than 60 and the High recommendation is shown.
C4_Defaults ==
    (Sliders = <<28, 65, 5>> /\ pc = "displayed")
        => /\ membership_value[1].temperature.hot = (3 * DEG) \div 10
           /\ membership_value[1].humidity.high = DEG \div 4
           /\ firing = <<0, 0, 0, (3 * DEG) \div 10, 0>>
           /\ GreaterThan(cooling_level[1], 60)
           /\ shown[1].recommendation = "High"

C4_Witness ==
    /\ Sliders = <<28, 65, 5>>
    /\ pc = "displayed"
    /\ shown[1].recommendation = "High"

\* C5: for occupancy 20, the temperatures whose 'moderate' degree is positive
\* are 19..27 and the humidities whose 'medium' degree is positive are 41..60;
\* for all of them rule 5 fires with strength 1, rules 2 and 3 with strength
\* 0, and the crisp output is at least 60 (the High recommendation).
C5_Dominance ==
    (occupancy_value = 20 /\ pc = "displayed")
        => /\ (membership_value[1].temperature.moderate > 0) <=> (temp_value \in 19..27)
           /\ (membership_value[1].humidity.medium > 0) <=> (humidity_value \in 41..60)
           /\ (temp_value \in 19..27 /\ humidity_value \in 41..60)
                => /\ firing[5] = DEG
                   /\ firing[2] = 0
                   /\ firing[3] = 0
                   /\ ~LessThan(cooling_level[1], 60)
                   /\ shown[1].recommendation = "High"

\* Rule 1 fires as well, and rule 4 does not.
C5_Witness ==
    /\ Sliders = <<19, 41, 20>>
    /\ pc = "displayed"
    /\ firing[1] > 0
    /\ firing[4] = 0

\* C6: the degree that inference uses for each triangular set (a, b, c) is in
\* [0, 1], is 0 outside [a, c], 0 at a (unless a = b), 1 at b, 0 at c (unless
\* b = c), non-decreasing on [a, b] and non-increasing on [b, c], for every
\* slider value (antecedent sets) and every grid point (cooling sets).
TriangleAt(abc, x, d) ==
    /\ d \in 0..DEG
    /\ (x < abc[1] \/ x > abc[3]) => d = 0
    /\ (x = abc[1] /\ abc[1] # abc[2]) => d = 0
    /\ x = abc[2] => d = DEG
    /\ (x = abc[3] /\ abc[2] # abc[3]) => d = 0

DegreeUsed(var, n, x) == InputMembership(var, ClipToBounds(x, var.universe))[n]

TriangleSlopes(var, sets, range) ==
    \A n \in DOMAIN sets : \A x \in range :
        (x + 1 \in range)
            => /\ (sets[n][1] <= x /\ x + 1 <= sets[n][2])
                    => DegreeUsed(var, n, x) <= DegreeUsed(var, n, x + 1)
               /\ (sets[n][2] <= x /\ x + 1 <= sets[n][3])
                    => DegreeUsed(var, n, x) >= DegreeUsed(var, n, x + 1)

C6_TriangleDegrees ==
    pc = "fuzzified"
        => /\ \A n \in DOMAIN TemperatureSets :
                TriangleAt(TemperatureSets[n], temp_value,
                           membership_value[1].temperature[n])
           /\ \A n \in DOMAIN HumiditySets :
                TriangleAt(HumiditySets[n], humidity_value,
                           membership_value[1].humidity[n])
           /\ \A n \in DOMAIN OccupancySets :
                TriangleAt(OccupancySets[n], occupancy_value,
                           membership_value[1].occupancy[n])
           /\ \A n \in DOMAIN CoolingSets : \A k \in 1..Len(system[1].cooling.universe) :
                TriangleAt(CoolingSets[n], system[1].cooling.universe[k],
                           system[1].cooling.terms[n][k])
           /\ TriangleSlopes(system[1].temperature, TemperatureSets, TempSlider)
           /\ TriangleSlopes(system[1].humidity, HumiditySets, HumiditySlider)
           /\ TriangleSlopes(system[1].occupancy, OccupancySets, OccupancySlider)
           /\ TriangleSlopes(system[1].cooling, CoolingSets,
                             Points(system[1].cooling.universe))

\* C7: every value selectable on a slider lies inside the universe of its
\* antecedent variable.
C7_SliderInUniverse ==
    system # <<>>
        => /\ temp_value \in Points(system[1].temperature.universe)
           /\ humidity_value \in Points(system[1].humidity.universe)
           /\ occupancy_value \in Points(system[1].occupancy.universe)

\* C8: the evaluation steps leave the variable, set and rule definitions
\* unchanged, every run builds the same definitions, and the crisp output
\* displayed is a function of the run's own slider tuple, whatever was
\* evaluated before.
Evaluate(t, h, o) ==
    LET sys == FuzzySystem
        mv == [temperature |->
                 InputMembership(sys.temperature, ClipToBounds(t, sys.temperature.universe)),
               humidity |->
                 InputMembership(sys.humidity, ClipToBounds(h, sys.humidity.universe)),
               occupancy |->
                 InputMembership(sys.occupancy, ClipToBounds(o, sys.occupancy.universe))]
    IN  centroid(find_memberships(sys.cooling, Accumulate(Firing(mv))))

C8_Stateless ==
    [][/\ (system # <<>> /\ pc' # "start") => system' = system
       /\ (system = <<>> /\ system' # <<>>) => system' = <<FuzzySystem>>
       /\ pc' = "displayed"
            => shown'[1].level = Evaluate(temp_value', humidity_value', occupancy_value')
      ]_vars

\* A run that follows three reruns: every slider has left its default.
C8_Witness ==
    /\ pc = "displayed"
    /\ temp_value # TempDefault
    /\ humidity_value # HumidityDefault
    /\ occupancy_value # OccupancyDefault

\* C9: an evaluation passes through Fuzzify, Rule evaluation, Aggregation
\* and Defuzzify in this order, each once; it starts only when the three
\* inputs are set; it ends with a crisp output or a failure; the output is
\* read only after Defuzzify.  Termination is stated by a variant: every
\* step of a run raises the rank of pc, the rank is at most 7, and until
\* the evaluation has ended (rank 6) the guard of its next stage holds.
Rank ==
    [start |-> 0, created |-> 1, ready |-> 2, fuzzified |-> 3, evaluated |-> 4,
     aggregated |-> 5, defuzzified |-> 6, failed |-> 6, displayed |-> 7]

StageOrder ==
    pc' # pc => \/ Rank[pc'] = Rank[pc] + 1
                \/ pc' = "start" /\ pc \in {"displayed", "failed"}

StageData ==
    /\ Rank[pc] >= 2 => /\ input # <<>>
                        /\ DOMAIN input[1] = {"temperature", "humidity", "occupancy"}
    /\ (membership_value # <<>>) <=> Rank[pc] >= 3
    /\ (firing # <<>>) <=> Rank[pc] >= 4
    /\ (aggregate # <<>>) <=> Rank[pc] >= 5
    /\ (cooling_level # <<>>) <=> pc \in {"defuzzified", "displayed"}
    /\ (shown # <<>>) <=> pc = "displayed"
    /\ shown # <<>> => shown[1].level = cooling_level[1]
    /\ Rank[pc] \in 2..5 => CanFuzzify \/ pc \in {"fuzzified", "evaluated", "aggregated"}

C10_OutputRange ==
    /\ pc # "failed"
    /\ pc = "displayed"
        => /\ ~LessThan(cooling_level[1], ArrayMin(CoolingUniverse))
           /\ ~GreaterThan(cooling_level[1], ArrayMax(CoolingUniverse))
           /\ ArrayMin(CoolingUniverse) = 0
           /\ ArrayMax(CoolingUniverse) = 99
           /\ shown[1].progress \in 0..100
           /\ (shown[1].recommendation = "Low") <=> LessThan(cooling_level[1], 30)
           /\ (shown[1].recommendation = "Medium")
                <=> (~LessThan(cooling_level[1], 30) /\ LessThan(cooling_level[1], 60))
           /\ (shown[1].recommendation = "High") <=> ~LessThan(cooling_level[1], 60)

C10_Witness ==
    /\ pc = "displayed"
    /\ shown[1].recommendation = "Medium"
    /\ shown[1].progress \in 30..59
=============================================================================
